---- MODULE Spec2Model ----
(***************************************************************************)
(* Self-balancing ordered indexes of the repository, as state machines:    *)
(*   AVLTree       src/9.1-avl-tree.js                                      *)
(*   RedBlackTree  src/22-btrees-explanation.md                             *)
(*   WAVLTree      src/map-astar/main.js                                    *)
(*   BTree         src/3-stack.js                                           *)
(*   BPlusTree     src/21-b+tree.js                                         *)
(*   Treap         src/19-treap.js                                          *)
(*   CartesianTree src/unnamed/part_002                                     *)
(* Each tree has its own specification (SpecAVL, SpecRB, ...), which        *)
(* leaves the other trees in their constructed, empty state.                *)
(***************************************************************************)
EXTENDS Integers, Sequences, FiniteSets, TLC

VARIABLES
  avl,        \* AVLTree.root: null or a nested AVLNode record
  avlPrev,    \* history: AVLTree.root before the last insert call
  avlIns,     \* history: the set of values passed to AVLTree.insert so far
  avlLast,    \* history: the value passed to the last AVLTree.insert (0: none)
  avlRot,     \* history: nodes the last AVLTree.insert found out of balance
  rb,         \* RedBlackTree: [root, nodes (the heap of RBNode objects), threw]
  wavl,       \* WAVLTree.root: null or a nested WAVLNode record
  wavlIns,    \* history: the set of values passed to WAVLTree.insert so far
  wavlRot,    \* history: nodes the last WAVLTree.insert demoted and rotated
  bt,         \* BTree: [root (nested BTreeNode records), t, threw]
  btIns,      \* history: how many times each key was passed to BTree.insert
  bp,         \* BPlusTree: [root, nodes (the heap of BPlusTreeNode objects),
              \*             minimumDegree, threw]
  bpIns,      \* history: how many times each key was passed to BPlusTree.insert
  bpRead,     \* history: the last search or rangeQuery call since the last
              \*          insert: [op, startKey, endKey, before, outcome, prior]
  treap,      \* Treap.root: null or a nested TreapNode record
  treapPrev,  \* history: Treap.root before the last insert or delete call
  treapLast,  \* history: the last Treap call, [op, value] (op "none": no call yet)
  ct,         \* CartesianTree.root: null or a nested CartesianNode record
  bst,        \* BinarySearchTree.root: null or a nested Node record
  bstIns      \* history: the set of values passed to BinarySearchTree.insert

avlVars == <<avl, avlPrev, avlIns, avlLast, avlRot>>
rbVars  == <<rb>>
wavlVars == <<wavl, wavlIns, wavlRot>>
btVars == <<bt, btIns>>
bpVars == <<bp, bpIns, bpRead>>
treapVars == <<treap, treapPrev, treapLast>>
ctVars == <<ct>>
bstVars == <<bst, bstIns>>

\* JavaScript null (an absent child, an empty tree)
null == <<>>

\* JavaScript null as an object reference into a heap of nodes 1..n
nil == 0

Range(s) == {s[i] : i \in 1..Len(s)}

StrictlyAscending(s) == \A i \in 1..(Len(s) - 1) : s[i] < s[i + 1]

Max(a, b) == IF a >= b THEN a ELSE b
Min(a, b) == IF a <= b THEN a ELSE b

(***************************************************************************)
(* Bounds                                                                  *)
(***************************************************************************)
\* AVLTree.insert draws its value from 1..MaxAVLVal
MaxAVLVal == 6

AVLVals == 1..MaxAVLVal

\* RedBlackTree.insert draws its key from 1..MaxRBKey, at most MaxRBInserts times
MaxRBKey == 5
MaxRBInserts == 8

RBKeys == 1..MaxRBKey

\* WAVLTree.insert draws its value from 1..MaxWAVLVal
MaxWAVLVal == 6

WAVLVals == 1..MaxWAVLVal

\* BTree and BPlusTree are constructed with a minimum degree in 2..MaxDegree
MaxDegree == 2

Degrees == 2..MaxDegree

\* BTree.insert draws its key from 1..MaxBTKey, at most MaxBTInserts times
MaxBTKey == 5
MaxBTInserts == 7

BTKeys == 1..MaxBTKey

\* BPlusTree.insert draws its key from 1..MaxBPKey, at most MaxBPInserts times
MaxBPKey == 7
MaxBPInserts == 7

BPKeys == 1..MaxBPKey

\* Runs that call search and rangeQuery between the inserts draw all keys
\* from 1..MaxBPReadKey and make at most MaxBPReadInserts inserts
MaxBPReadKey == 3
MaxBPReadInserts == 5

BPReadKeys == 1..MaxBPReadKey

\* Treap.insert and delete draw their value from 1..MaxTreapVal; a new
\* TreapNode's priority (Math.random()) is drawn from 1..MaxTreapPriority;
\* the tree grows to at most MaxTreapNodes nodes
MaxTreapVal == 3
MaxTreapPriority == 3
MaxTreapNodes == 3

TreapVals == 1..MaxTreapVal
TreapPriorities == 1..MaxTreapPriority

\* CartesianTree.insert draws its value from 1..MaxCTVal and its priority
\* from 1..MaxCTPriority; the tree grows to at most MaxCTNodes nodes
MaxCTVal == 3
MaxCTPriority == 3
MaxCTNodes == 3

CTVals == 1..MaxCTVal
CTPriorities == 1..MaxCTPriority

\* BinarySearchTree.insert draws its value from 1..MaxBSTVal (the example
\* inserts seven distinct values)
MaxBSTVal == 7

BSTVals == 1..MaxBSTVal

(***************************************************************************)
(* AVLTree                                                                 *)
(***************************************************************************)
AVLNode(value) == [value |-> value, left |-> null, right |-> null, height |-> 1]

AVL_height(node) == IF node = null THEN 0 ELSE node.height

AVL_balanceFactor(node) == AVL_height(node.left) - AVL_height(node.right)

\* Mutant of updateHeight: the height is counted up instead of recomputed
AVL_updateHeight_countUp(node) == [node EXCEPT !.height = @ + 1]

AVL_updateHeight(node) ==
  [node EXCEPT !.height = 1 + Max(AVL_height(node.left), AVL_height(node.right))]

\* Mutant of rotateRight: the two updateHeight calls are left out
AVL_rotateRight_staleHeights(y) ==
  LET x  == y.left
      T2 == x.right
  IN  [x EXCEPT !.right = [y EXCEPT !.left = T2]]

\* x = y.left; T2 = x.right; x.right = y; y.left = T2; heights of y, then x
AVL_rotateRight(y) ==
  LET x  == y.left
      T2 == x.right
      y1 == AVL_updateHeight([y EXCEPT !.left = T2])
  IN  AVL_updateHeight([x EXCEPT !.right = y1])

\* Mutant of rotateLeft: x.right = T2 forgotten (x.right is cleared)
AVL_rotateLeft_dropT2(x) ==
  LET y  == x.right
      x1 == AVL_updateHeight([x EXCEPT !.right = null])
  IN  AVL_updateHeight([y EXCEPT !.left = x1])

\* y = x.right; T2 = y.left; y.left = x; x.right = T2; heights of x, then y
AVL_rotateLeft(x) ==
  LET y  == x.right
      T2 == y.left
      x1 == AVL_updateHeight([x EXCEPT !.right = T2])
  IN  AVL_updateHeight([y EXCEPT !.left = x1])

\* Mutant of the rebalancing cases: the zig-zag cases rotate once only
AVL_rebalance_singleOnly(node0, value) ==
  LET node    == AVL_updateHeight(node0)
      balance == AVL_balanceFactor(node)
  IN  IF balance > 1 THEN AVL_rotateRight(node)
      ELSE IF balance < -1 THEN AVL_rotateLeft(node)
      ELSE node

\* The part of _insert after the recursive call: height update, balance
\* factor, and the four rotation cases.
AVL_rebalance(node0, value) ==
  LET node    == AVL_updateHeight(node0)
      balance == AVL_balanceFactor(node)
  IN  IF balance > 1
      THEN IF value < node.left.value
           THEN AVL_rotateRight(node)
           ELSE AVL_rotateRight([node EXCEPT !.left = AVL_rotateLeft(node.left)])
      ELSE IF balance < -1
      THEN IF value > node.right.value
           THEN AVL_rotateLeft(node)
           ELSE AVL_rotateLeft([node EXCEPT !.right = AVL_rotateRight(node.right)])
      ELSE node

RECURSIVE AVL_insert(_, _)
AVL_insert(node, value) ==
  IF node = null THEN AVLNode(value)
  ELSE IF value < node.value
  THEN AVL_rebalance([node EXCEPT !.left = AVL_insert(node.left, value)], value)
  ELSE IF value > node.value
  THEN AVL_rebalance([node EXCEPT !.right = AVL_insert(node.right, value)], value)
  ELSE node

\* inorderTraversal, as the sequence of values it logs
RECURSIVE AVL_inorder(_)
AVL_inorder(node) ==
  IF node = null THEN <<>>
  ELSE AVL_inorder(node.left) \o <<node.value>> \o AVL_inorder(node.right)

\* Mutant of the test of _kthSmallestHelper: count >= k instead of count === k
AVL_kthReached_atLeast(result, k) == result.count >= k

\* if (result.count === k)
AVL_kthReached(result, k) == result.count = k

\* _kthSmallestHelper(node, k, result): the result object after the call.
\* result.value is <<>> for null and <<v>> for the value v.
RECURSIVE AVL_kthSmallestHelper(_, _, _)
AVL_kthSmallestHelper(node, k, result) ==
  IF node = null THEN result
  ELSE LET afterLeft == AVL_kthSmallestHelper(node.left, k, result)
           counted   == [afterLeft EXCEPT !.count = @ + 1]
       IN  IF AVL_kthReached(counted, k)
           THEN [counted EXCEPT !.value = <<node.value>>]
           ELSE AVL_kthSmallestHelper(node.right, k, counted)

\* kthSmallest(k): <<>> for null, <<v>> for the value v
AVL_kthSmallest(root, k) ==
  AVL_kthSmallestHelper(root, k, [count |-> 0, value |-> <<>>]).value

\* Number of nodes on the search path that _insert finds with a balance
\* factor outside [-1, 1] (each gets a single or a double rotation).
RECURSIVE AVL_rotations(_, _)
AVL_rotations(node, value) ==
  IF node = null \/ value = node.value THEN 0
  ELSE LET below == IF value < node.value THEN node.left ELSE node.right
           grown == IF value < node.value
                    THEN [node EXCEPT !.left = AVL_insert(node.left, value)]
                    ELSE [node EXCEPT !.right = AVL_insert(node.right, value)]
           bal   == AVL_balanceFactor(AVL_updateHeight(grown))
       IN  AVL_rotations(below, value)
             + (IF bal > 1 \/ bal < -1 THEN 1 ELSE 0)

AVLInit == avl = null /\ avlPrev = null /\ avlIns = {} /\ avlLast = 0 /\ avlRot = 0

AVLInsert(value) ==
  /\ avl' = AVL_insert(avl, value)
  /\ avlPrev' = avl
  /\ avlIns' = avlIns \cup {value}
  /\ avlLast' = value
  /\ avlRot' = AVL_rotations(avl, value)
  /\ UNCHANGED <<rbVars, wavlVars, btVars, bpVars, treapVars, ctVars, bstVars>>

(***************************************************************************)
(* RedBlackTree: a heap of RBNode objects addressed by reference 1..n      *)
(***************************************************************************)
RBNode(key) ==
  [key |-> key, color |-> "RED", left |-> nil, right |-> nil, parent |-> nil]

RB_setLeft(T, n, v)   == [T EXCEPT !.nodes[n].left = v]
RB_setRight(T, n, v)  == [T EXCEPT !.nodes[n].right = v]
RB_setParent(T, n, v) == [T EXCEPT !.nodes[n].parent = v]
RB_setColor(T, n, c)  == [T EXCEPT !.nodes[n].color = c]
\* a property read on null: TypeError
RB_throw(T)           == [T EXCEPT !.threw = TRUE]

\* Mutant of rotateLeft: if (y.left) y.left.parent = x forgotten
RB_rotateLeft_staleParent(T, x) ==
  LET y == T.nodes[x].right IN
  IF y = nil THEN RB_throw(T) ELSE
  LET yl == T.nodes[y].left
      xp == T.nodes[x].parent
      T1 == RB_setRight(T, x, yl)
      T3 == RB_setParent(T1, y, xp)
      T4 == IF xp = nil THEN [T3 EXCEPT !.root = y]
            ELSE IF x = T3.nodes[xp].left THEN RB_setLeft(T3, xp, y)
            ELSE RB_setRight(T3, xp, y)
  IN  RB_setParent(RB_setLeft(T4, y, x), x, y)

RB_rotateLeft(T, x) ==
  LET y == T.nodes[x].right IN
  IF y = nil THEN RB_throw(T) ELSE
  LET yl == T.nodes[y].left
      xp == T.nodes[x].parent
      T1 == RB_setRight(T, x, yl)
      T2 == IF yl # nil THEN RB_setParent(T1, yl, x) ELSE T1
      T3 == RB_setParent(T2, y, xp)
      T4 == IF xp = nil THEN [T3 EXCEPT !.root = y]
            ELSE IF x = T3.nodes[xp].left THEN RB_setLeft(T3, xp, y)
            ELSE RB_setRight(T3, xp, y)
  IN  RB_setParent(RB_setLeft(T4, y, x), x, y)

RB_rotateRight(T, x) ==
  LET y == T.nodes[x].left IN
  IF y = nil THEN RB_throw(T) ELSE
  LET yr == T.nodes[y].right
      xp == T.nodes[x].parent
      T1 == RB_setLeft(T, x, yr)
      T2 == IF yr # nil THEN RB_setParent(T1, yr, x) ELSE T1
      T3 == RB_setParent(T2, y, xp)
      T4 == IF xp = nil THEN [T3 EXCEPT !.root = y]
            ELSE IF x = T3.nodes[xp].right THEN RB_setRight(T3, xp, y)
            ELSE RB_setLeft(T3, xp, y)
  IN  RB_setParent(RB_setRight(T4, y, x), x, y)

\* Cases 2 and 3 of fixInsert with the parent a left child: returns the tree
\* and the node the loop continues with.
RB_fixLeftBlackUncle(T, node0) ==
  LET inner == node0 = T.nodes[T.nodes[node0].parent].right
      node  == IF inner THEN T.nodes[node0].parent ELSE node0
      T1    == IF inner THEN RB_rotateLeft(T, node) ELSE T
      p     == T1.nodes[node].parent
  IN  IF T1.threw \/ p = nil
      THEN [tree |-> RB_throw(T1), node |-> node]
      ELSE LET g  == T1.nodes[p].parent
               T2 == RB_setColor(T1, p, "BLACK")
           IN  IF g = nil THEN [tree |-> RB_throw(T2), node |-> node]
               ELSE [tree |-> RB_rotateRight(RB_setColor(T2, g, "RED"), g), node |-> node]

\* The same with "left" and "right" exchanged
RB_fixRightBlackUncle(T, node0) ==
  LET inner == node0 = T.nodes[T.nodes[node0].parent].left
      node  == IF inner THEN T.nodes[node0].parent ELSE node0
      T1    == IF inner THEN RB_rotateRight(T, node) ELSE T
      p     == T1.nodes[node].parent
  IN  IF T1.threw \/ p = nil
      THEN [tree |-> RB_throw(T1), node |-> node]
      ELSE LET g  == T1.nodes[p].parent
               T2 == RB_setColor(T1, p, "BLACK")
           IN  IF g = nil THEN [tree |-> RB_throw(T2), node |-> node]
               ELSE [tree |-> RB_rotateLeft(RB_setColor(T2, g, "RED"), g), node |-> node]

\* Mutant of case 1: node.parent.color = "BLACK" forgotten
RB_recolor_parentStaysRed(T, p, uncle, g) ==
  RB_setColor(RB_setColor(T, uncle, "BLACK"), g, "RED")

\* Mutant of case 1: node.parent.parent.color = "RED" forgotten
RB_recolor_grandparentStaysBlack(T, p, uncle, g) ==
  RB_setColor(RB_setColor(T, p, "BLACK"), uncle, "BLACK")

\* Case 1: the uncle is red
RB_recolor(T, p, uncle, g) ==
  RB_setColor(RB_setColor(RB_setColor(T, p, "BLACK"), uncle, "BLACK"), g, "RED")

\* Mutant of the last statement of fixInsert: the root keeps its colour
RB_blackenRoot_skipped(T) == T

\* this.root.color = "BLACK"
RB_blackenRoot(T) == RB_setColor(T, T.root, "BLACK")

\* The while loop of fixInsert, then root.color = BLACK
RECURSIVE RB_fixInsert(_, _)
RB_fixInsert(T, node) ==
  LET p == T.nodes[node].parent IN
  IF T.threw THEN T
  ELSE IF p # nil /\ T.nodes[p].color = "RED"
  THEN LET g == T.nodes[p].parent IN
       IF g = nil THEN RB_throw(T)
       ELSE IF p = T.nodes[g].left
       THEN LET uncle == T.nodes[g].right IN
            IF uncle # nil /\ T.nodes[uncle].color = "RED"
            THEN RB_fixInsert(RB_recolor(T, p, uncle, g), g)
            ELSE LET r == RB_fixLeftBlackUncle(T, node)
                 IN  RB_fixInsert(r.tree, r.node)
       ELSE LET uncle == T.nodes[g].left IN
            IF uncle # nil /\ T.nodes[uncle].color = "RED"
            THEN RB_fixInsert(RB_recolor(T, p, uncle, g), g)
            ELSE LET r == RB_fixRightBlackUncle(T, node)
                 IN  RB_fixInsert(r.tree, r.node)
  ELSE RB_blackenRoot(T)

\* The descent of insert: the node under which the new key is linked
RECURSIVE RB_findParent(_, _, _, _)
RB_findParent(T, current, parent, key) ==
  IF current = nil THEN parent
  ELSE RB_findParent(T,
         IF key < T.nodes[current].key THEN T.nodes[current].left
         ELSE T.nodes[current].right,
         current, key)

RB_insert(T, key) ==
  LET node   == Len(T.nodes) + 1
      parent == RB_findParent(T, T.root, nil, key)
      T1     == [T EXCEPT !.nodes = Append(T.nodes, [RBNode(key) EXCEPT !.parent = parent])]
      T2     == IF parent = nil THEN [T1 EXCEPT !.root = node]
                ELSE IF key < T1.nodes[parent].key THEN RB_setLeft(T1, parent, node)
                ELSE RB_setRight(T1, parent, node)
  IN  RB_fixInsert(T2, node)

\* References are opaque in the program: after each operation the heap is
\* renumbered in pre-order from the root (an isomorphism of the object
\* graph).  A heap whose nodes are not each reached exactly once from the
\* root is left as it is.
RECURSIVE RB_preorder(_, _, _)
RB_preorder(T, n, fuel) ==
  IF n = nil \/ fuel = 0 THEN <<>>
  ELSE <<n>> \o RB_preorder(T, T.nodes[n].left, fuel - 1)
             \o RB_preorder(T, T.nodes[n].right, fuel - 1)

RB_renumber(T) ==
  LET order == RB_preorder(T, T.root, Len(T.nodes) + 1)
      N     == Len(T.nodes)
      new(old) == IF old = nil THEN nil
                  ELSE CHOOSE i \in 1..N : order[i] = old
  IN  IF Len(order) # N \/ Range(order) # 1..N THEN T
      ELSE [root  |-> new(T.root),
            nodes |-> [i \in 1..N |->
                        LET o == T.nodes[order[i]]
                        IN  [key |-> o.key, color |-> o.color,
                             left |-> new(o.left), right |-> new(o.right),
                             parent |-> IF o.parent \in 1..N THEN new(o.parent) ELSE o.parent]],
            threw |-> T.threw]

RBInit == rb = [root |-> nil, nodes |-> <<>>, threw |-> FALSE]

\* An uncaught TypeError ends the script: no insert follows one that threw.
RBInsert(key) ==
  /\ ~rb.threw
  /\ Len(rb.nodes) < MaxRBInserts
  /\ rb' = RB_renumber(RB_insert(rb, key))
  /\ UNCHANGED <<avlVars, wavlVars, btVars, bpVars, treapVars, ctVars, bstVars>>

(***************************************************************************)
(* WAVLTree                                                                *)
(***************************************************************************)
WAVLNode(value) == [value |-> value, left |-> null, right |-> null, rank |-> 0]

WAVL_rank(node) == IF node = null THEN -1 ELSE node.rank

\* x = y.left; y.left = x.right; x.right = y; ranks of y, then x
WAVL_rotateRight(y) ==
  LET x  == y.left
      y1 == [y EXCEPT !.left = x.right]
      y2 == [y1 EXCEPT !.rank = Min(WAVL_rank(y1.left), WAVL_rank(y1.right)) + 1]
      x1 == [x EXCEPT !.right = y2]
  IN  [x1 EXCEPT !.rank = Min(WAVL_rank(x1.left), y2.rank) + 1]

\* Mutant of rotateLeft: x.right = y.left forgotten (x.right is cleared)
WAVL_rotateLeft_dropsSubtree(x) ==
  LET y  == x.right
      x1 == [x EXCEPT !.right = null]
      x2 == [x1 EXCEPT !.rank = Min(WAVL_rank(x1.left), WAVL_rank(x1.right)) + 1]
      y1 == [y EXCEPT !.left = x2]
  IN  [y1 EXCEPT !.rank = Min(WAVL_rank(y1.right), x2.rank) + 1]

\* y = x.right; x.right = y.left; y.left = x; ranks of x, then y
WAVL_rotateLeft(x) ==
  LET y  == x.right
      x1 == [x EXCEPT !.right = y.left]
      x2 == [x1 EXCEPT !.rank = Min(WAVL_rank(x1.left), WAVL_rank(x1.right)) + 1]
      y1 == [y EXCEPT !.left = x2]
  IN  [y1 EXCEPT !.rank = Min(WAVL_rank(y1.right), x2.rank) + 1]

WAVL_rebalance(node) ==
  LET leftRank  == WAVL_rank(node.left)
      rightRank == WAVL_rank(node.right)
  IN  IF node.rank - leftRank > 2 \/ node.rank - rightRank > 2
      THEN LET demoted == [node EXCEPT !.rank = node.rank - 1]
           IN  IF leftRank > rightRank
               THEN WAVL_rotateRight(demoted)
               ELSE WAVL_rotateLeft(demoted)
      ELSE IF node.rank - leftRank = 0 \/ node.rank - rightRank = 0
      THEN [node EXCEPT !.rank = node.rank + 1]
      ELSE node

RECURSIVE WAVL_insert(_, _)
WAVL_insert(node, value) ==
  IF node = null THEN WAVLNode(value)
  ELSE IF value < node.value
  THEN WAVL_rebalance([node EXCEPT !.left = WAVL_insert(node.left, value)])
  ELSE IF value > node.value
  THEN WAVL_rebalance([node EXCEPT !.right = WAVL_insert(node.right, value)])
  ELSE node

\* inorderTraversal, as the sequence of values it logs
RECURSIVE WAVL_inorder(_)
WAVL_inorder(node) ==
  IF node = null THEN <<>>
  ELSE WAVL_inorder(node.left) \o <<node.value>> \o WAVL_inorder(node.right)

\* Number of nodes on the search path that rebalance demotes and rotates
\* (the nodes above a value already in the tree are rebalanced too)
RECURSIVE WAVL_rotations(_, _)
WAVL_rotations(node, value) ==
  IF node = null \/ value = node.value THEN 0
  ELSE LET below == IF value < node.value THEN node.left ELSE node.right
           grown == IF value < node.value
                    THEN [node EXCEPT !.left = WAVL_insert(node.left, value)]
                    ELSE [node EXCEPT !.right = WAVL_insert(node.right, value)]
       IN  WAVL_rotations(below, value)
             + (IF \/ grown.rank - WAVL_rank(grown.left) > 2
                   \/ grown.rank - WAVL_rank(grown.right) > 2
                THEN 1 ELSE 0)

WAVLInit == wavl = null /\ wavlIns = {} /\ wavlRot = 0

WAVLInsert(value) ==
  /\ wavl' = WAVL_insert(wavl, value)
  /\ wavlIns' = wavlIns \cup {value}
  /\ wavlRot' = WAVL_rotations(wavl, value)
  /\ UNCHANGED <<avlVars, rbVars, btVars, bpVars, treapVars, ctVars, bstVars>>

(***************************************************************************)
(* Array.prototype.splice, push and the key scans shared by the B-trees    *)
(* (array indexes are 0-based in the source, 1-based here)                 *)
(***************************************************************************)
\* a.splice(start, 0, x): a with x inserted at 0-based index start
SpliceInsert(a, start, x) ==
  LET at == Min(start, Len(a))
  IN  SubSeq(a, 1, at) \o <<x>> \o SubSeq(a, at + 1, Len(a))

\* a.splice(start, count): the elements removed and the array left behind
SpliceRemove(a, start, count) ==
  LET from == Min(start, Len(a))
      to   == Min(from + Max(count, 0), Len(a))
  IN  [removed |-> SubSeq(a, from + 1, to),
       rest    |-> SubSeq(a, 1, from) \o SubSeq(a, to + 1, Len(a))]

\* a.splice(start): everything from start on is removed
SpliceTail(a, start) == SpliceRemove(a, start, Len(a))

\* while (i >= 0 && k < keys[i]) i--;  from 0-based index i
RECURSIVE ScanDown(_, _, _)
ScanDown(keys, i, k) ==
  IF i >= 0 /\ k < keys[i + 1] THEN ScanDown(keys, i - 1, k) ELSE i

\* while (i < keys.length && k > keys[i]) i++;  from 0-based index i
RECURSIVE ScanUp(_, _, _)
ScanUp(keys, i, k) ==
  IF i < Len(keys) /\ k > keys[i + 1] THEN ScanUp(keys, i + 1, k) ELSE i

(***************************************************************************)
(* BTree                                                                   *)
(***************************************************************************)
BTreeNode(leaf) == [leaf |-> leaf, keys |-> <<>>, children |-> <<>>]

\* Mutant of splitChild: the keys are cut one place too far to the right
\* (child.keys.splice(t + 1, t - 1)), so the new child gets t - 2 keys
BT_splitChild_lateCut(parent, i, t) ==
  LET child == parent.children[i + 1]
      pkeys == SpliceInsert(parent.keys, i, child.keys[t])
      ks    == SpliceRemove(child.keys, t + 1, t - 1)
      cs    == SpliceRemove(child.children, t, t)
      child1   == [leaf |-> child.leaf, keys |-> ks.rest,
                   children |-> IF child.leaf THEN child.children ELSE cs.rest]
      newChild == [leaf |-> child.leaf, keys |-> ks.removed,
                   children |-> IF child.leaf THEN <<>> ELSE cs.removed]
  IN  [parent EXCEPT
         !.keys = pkeys,
         !.children = SpliceInsert([parent.children EXCEPT ![i + 1] = child1],
                                   i + 1, newChild)]

\* splitChild(parent, i): the parent after the split of its i-th child
BT_splitChild(parent, i, t) ==
  LET child == parent.children[i + 1]
      pkeys == SpliceInsert(parent.keys, i, child.keys[t])
      ks    == SpliceRemove(child.keys, t, t - 1)
      cs    == SpliceRemove(child.children, t, t)
      child1   == [leaf |-> child.leaf, keys |-> ks.rest,
                   children |-> IF child.leaf THEN child.children ELSE cs.rest]
      newChild == [leaf |-> child.leaf, keys |-> ks.removed,
                   children |-> IF child.leaf THEN <<>> ELSE cs.removed]
  IN  [parent EXCEPT
         !.keys = pkeys,
         !.children = SpliceInsert([parent.children EXCEPT ![i + 1] = child1],
                                   i + 1, newChild)]

\* insertNonFull(node, k): the node after the insert, and whether the call
\* threw (node.children[i] undefined) leaving the nodes as they were then
RECURSIVE BT_insertNonFull(_, _, _)
BT_insertNonFull(node, k, t) ==
  LET i0 == ScanDown(node.keys, Len(node.keys) - 1, k) IN
  IF node.leaf
  THEN [node |-> [node EXCEPT !.keys = SpliceInsert(node.keys, i0 + 1, k)],
        threw |-> FALSE]
  ELSE LET i == i0 + 1 IN
       IF i + 1 > Len(node.children)
       THEN [node |-> node, threw |-> TRUE]
       ELSE LET full  == Len(node.children[i + 1].keys) = 2 * t - 1
                node1 == IF full THEN BT_splitChild(node, i, t) ELSE node
                i1    == IF full /\ k > node1.keys[i + 1] THEN i + 1 ELSE i
                r     == BT_insertNonFull(node1.children[i1 + 1], k, t)
            IN  [node |-> [node1 EXCEPT !.children[i1 + 1] = r.node],
                 threw |-> r.threw]

BT_insert(T, k) ==
  LET root == T.root
      r == IF Len(root.keys) = 2 * T.t - 1
           THEN LET newRoot == [BTreeNode(FALSE) EXCEPT !.children = <<root>>]
                IN  BT_insertNonFull(BT_splitChild(newRoot, 0, T.t), k, T.t)
           ELSE BT_insertNonFull(root, k, T.t)
  IN  [root |-> r.node, t |-> T.t, threw |-> r.threw]

\* search(k, node): whether the call raised, and the node returned.  A missing
\* child (node.children[i] undefined) makes the default parameter restart the
\* search at the root with the same key: the recursion never ends and the
\* engine raises RangeError (call stack size exceeded).
\* Mutant of the scan of search: it starts at index 1 (let i = 1)
BT_searchIndex_fromOne(node, k) == ScanUp(node.keys, 1, k)

\* let i = 0; while (i < node.keys.length && k > node.keys[i]) i++;
BT_searchIndex(node, k) == ScanUp(node.keys, 0, k)

RECURSIVE BT_search(_, _)
BT_search(node, k) ==
  LET i == BT_searchIndex(node, k) IN
  IF i < Len(node.keys) /\ k = node.keys[i + 1]
  THEN [threw |-> FALSE, node |-> node]
  ELSE IF node.leaf
  THEN [threw |-> FALSE, node |-> null]
  ELSE IF i + 1 > Len(node.children)
  THEN [threw |-> TRUE, node |-> null]
  ELSE BT_search(node.children[i + 1], k)

BTInit ==
  /\ \E t \in Degrees : bt = [root |-> BTreeNode(TRUE), t |-> t, threw |-> FALSE]
  /\ btIns = [k \in BTKeys |-> 0]

RECURSIVE SumOver(_, _)
SumOver(f, S) ==
  IF S = {} THEN 0
  ELSE LET x == CHOOSE y \in S : TRUE IN f[x] + SumOver(f, S \ {x})

BTCount == SumOver(btIns, DOMAIN btIns)

\* An uncaught TypeError ends the script: no insert follows one that threw.
BTInsert(k) ==
  /\ ~bt.threw
  /\ BTCount < MaxBTInserts
  /\ bt' = BT_insert(bt, k)
  /\ btIns' = [btIns EXCEPT ![k] = @ + 1]
  /\ UNCHANGED <<avlVars, rbVars, wavlVars, bpVars, treapVars, ctVars, bstVars>>

(***************************************************************************)
(* BPlusTree: a heap of BPlusTreeNode objects addressed by reference 1..n. *)
(* A leaf's childPointers hold the values, an internal node's hold         *)
(* references.                                                             *)
(***************************************************************************)
BPlusTreeNode(isLeaf) ==
  [keys |-> <<>>, childPointers |-> <<>>, isLeaf |-> isLeaf, nextLeaf |-> nil]

BP_maxKeysPerNode(T) == 2 * T.minimumDegree - 1

\* a property read on undefined or null: TypeError
BP_throw(T) == [T EXCEPT !.threw = TRUE]

\* _splitChild(parentNode, childIndex), with parentNode a reference
BP_splitChild(T, parentNode, childIndex) ==
  LET t         == T.minimumDegree
      childNode == T.nodes[parentNode].childPointers[childIndex + 1]
      child     == T.nodes[childNode]
      newNode   == Len(T.nodes) + 1
      ks        == SpliceTail(child.keys, t - 1)
      cs        == IF child.isLeaf THEN SpliceTail(child.childPointers, t - 1)
                   ELSE SpliceTail(child.childPointers, t)
      parent1   == [T.nodes[parentNode] EXCEPT
                      !.childPointers = SpliceInsert(@, childIndex + 1, newNode),
                      !.keys = SpliceInsert(@, childIndex, child.keys[t])]
      child1    == [child EXCEPT
                      !.keys = ks.rest,
                      !.childPointers = cs.rest,
                      !.nextLeaf = IF child.isLeaf THEN newNode ELSE @]
      new1      == [keys |-> ks.removed, childPointers |-> cs.removed,
                    isLeaf |-> child.isLeaf,
                    nextLeaf |-> IF child.isLeaf THEN child.nextLeaf ELSE nil]
  IN  [T EXCEPT !.nodes = Append([@ EXCEPT ![parentNode] = parent1,
                                           ![childNode] = child1], new1)]

\* _insertNonFull(currentNode, keyToInsert, valueToInsert)
RECURSIVE BP_insertNonFull(_, _, _, _)
BP_insertNonFull(T, currentNode, keyToInsert, valueToInsert) ==
  LET cur == T.nodes[currentNode]
      k0  == ScanDown(cur.keys, Len(cur.keys) - 1, keyToInsert)
  IN  IF cur.isLeaf
      THEN [T EXCEPT !.nodes[currentNode] =
              [cur EXCEPT
                 !.keys = SpliceInsert(@, k0 + 1, keyToInsert),
                 !.childPointers = SpliceInsert(@, k0 + 1, valueToInsert)]]
      ELSE LET keyIndex == k0 + 1 IN
           IF keyIndex + 1 > Len(cur.childPointers)
           THEN BP_throw(T)
           ELSE LET full == Len(T.nodes[cur.childPointers[keyIndex + 1]].keys)
                              = BP_maxKeysPerNode(T)
                    T1   == IF full THEN BP_splitChild(T, currentNode, keyIndex) ELSE T
                    cur1 == T1.nodes[currentNode]
                    k1   == IF full /\ keyToInsert > cur1.keys[keyIndex + 1]
                            THEN keyIndex + 1 ELSE keyIndex
                IN  BP_insertNonFull(T1, cur1.childPointers[k1 + 1],
                                     keyToInsert, valueToInsert)

BP_insert(T, keyToInsert, valueToInsert) ==
  IF T.root = nil
  THEN [T EXCEPT
          !.nodes = Append(@, [BPlusTreeNode(TRUE) EXCEPT
                                 !.keys = <<keyToInsert>>,
                                 !.childPointers = <<valueToInsert>>]),
          !.root = Len(T.nodes) + 1]
  ELSE LET full == Len(T.nodes[T.root].keys) = BP_maxKeysPerNode(T)
           newRoot == Len(T.nodes) + 1
           T1 == IF full
                 THEN LET grown == [T EXCEPT !.nodes = Append(@,
                                      [BPlusTreeNode(FALSE) EXCEPT
                                         !.childPointers = <<T.root>>])]
                      IN  [BP_splitChild(grown, newRoot, 0) EXCEPT !.root = newRoot]
                 ELSE T
       IN  BP_insertNonFull(T1, T1.root, keyToInsert, valueToInsert)

\* _recursiveSearch: [threw, value]; value is null when the key is not found
RECURSIVE BP_recursiveSearch(_, _, _)
BP_recursiveSearch(T, currentNode, keyToFind) ==
  LET cur      == T.nodes[currentNode]
      keyIndex == ScanUp(cur.keys, 0, keyToFind)
  IN  IF cur.isLeaf
      THEN IF keyIndex < Len(cur.keys) /\ keyToFind = cur.keys[keyIndex + 1]
           THEN [threw |-> FALSE, value |-> cur.childPointers[keyIndex + 1]]
           ELSE [threw |-> FALSE, value |-> null]
      ELSE IF keyIndex + 1 > Len(cur.childPointers)
           THEN [threw |-> TRUE, value |-> null]
           ELSE BP_recursiveSearch(T, cur.childPointers[keyIndex + 1], keyToFind)

BP_search(T, keyToFind) ==
  IF T.root = nil THEN [threw |-> FALSE, value |-> null]
  ELSE BP_recursiveSearch(T, T.root, keyToFind)

\* _findLeafNode: the reference of the leaf, or nil with threw when a
\* property of null or undefined is read
RECURSIVE BP_findLeafNode(_, _, _)
BP_findLeafNode(T, currentNode, keyToFind) ==
  IF currentNode = nil THEN [threw |-> TRUE, leaf |-> nil]
  ELSE LET cur      == T.nodes[currentNode]
           keyIndex == ScanUp(cur.keys, 0, keyToFind)
       IN  IF cur.isLeaf THEN [threw |-> FALSE, leaf |-> currentNode]
           ELSE IF keyIndex + 1 > Len(cur.childPointers)
           THEN [threw |-> TRUE, leaf |-> nil]
           ELSE BP_findLeafNode(T, cur.childPointers[keyIndex + 1], keyToFind)

\* The for loop of rangeQuery over one leaf from 0-based index i:
\* [result, done] with done set by the early return
RECURSIVE BP_scanLeaf(_, _, _, _, _)
BP_scanLeaf(leaf, i, startKey, endKey, result) ==
  IF i >= Len(leaf.keys) THEN [result |-> result, done |-> FALSE]
  ELSE LET key == leaf.keys[i + 1]
           r1  == IF key >= startKey /\ key <= endKey
                  THEN Append(result, [key |-> key, value |-> leaf.childPointers[i + 1]])
                  ELSE result
       IN  IF key > endKey THEN [result |-> r1, done |-> TRUE]
           ELSE BP_scanLeaf(leaf, i + 1, startKey, endKey, r1)

\* The while loop of rangeQuery along nextLeaf
RECURSIVE BP_scanChain(_, _, _, _, _)
BP_scanChain(T, leafNode, startKey, endKey, result) ==
  IF leafNode = nil THEN result
  ELSE LET r == BP_scanLeaf(T.nodes[leafNode], 0, startKey, endKey, result)
       IN  IF r.done THEN r.result
           ELSE BP_scanChain(T, T.nodes[leafNode].nextLeaf, startKey, endKey, r.result)

\* rangeQuery(startKey, endKey): [threw, result]
BP_rangeQuery(T, startKey, endKey) ==
  LET f == BP_findLeafNode(T, T.root, startKey)
  IN  IF f.threw THEN [threw |-> TRUE, result |-> <<>>]
      ELSE [threw |-> FALSE,
            result |-> BP_scanChain(T, f.leaf, startKey, endKey, <<>>)]

\* References are opaque in the program: after each operation the heap is
\* renumbered in pre-order from the root (an isomorphism of the object
\* graph).  A heap whose nodes are not each reached exactly once from the
\* root is left as it is.
RECURSIVE BP_preorder(_, _, _)
RECURSIVE BP_preorderAll(_, _, _)
BP_preorder(T, n, fuel) ==
  IF n = nil \/ fuel = 0 THEN <<>>
  ELSE <<n>> \o (IF T.nodes[n].isLeaf THEN <<>>
                 ELSE BP_preorderAll(T, T.nodes[n].childPointers, fuel - 1))
BP_preorderAll(T, refs, fuel) ==
  IF refs = <<>> THEN <<>>
  ELSE BP_preorder(T, Head(refs), fuel) \o BP_preorderAll(T, Tail(refs), fuel)

BP_renumber(T) ==
  LET order == BP_preorder(T, T.root, Len(T.nodes) + 1)
      N     == Len(T.nodes)
      new(old) == IF old = nil THEN nil
                  ELSE CHOOSE i \in 1..N : order[i] = old
  IN  IF Len(order) # N \/ Range(order) # 1..N THEN T
      ELSE [T EXCEPT
              !.root  = new(T.root),
              !.nodes = [i \in 1..N |->
                          LET o == T.nodes[order[i]]
                          IN  [o EXCEPT
                                 !.childPointers =
                                    IF o.isLeaf THEN @
                                    ELSE [j \in 1..Len(o.childPointers) |->
                                            new(o.childPointers[j])],
                                 !.nextLeaf = new(@)]]]

\* No search or rangeQuery call was made since the last insert
BPNoRead ==
  [op |-> "none", startKey |-> 0, endKey |-> 0,
   before |-> <<>>, outcome |-> <<>>, prior |-> <<>>]

BPInit ==
  /\ \E t \in Degrees :
       bp = [root |-> nil, nodes |-> <<>>, minimumDegree |-> t, threw |-> FALSE]
  /\ bpIns = [k \in BPKeys |-> 0]
  /\ bpRead = BPNoRead

BPCount == SumOver(bpIns, DOMAIN bpIns)

\* The value passed with the n-th insert of key k.  The tree never looks
\* into a value, so a tag naming the insert stands for any value.
BPValue(k, n) == <<k, n>>

\* An uncaught TypeError ends the script: no insert follows one that threw.
BPInsert(k) ==
  /\ ~bp.threw
  /\ BPCount < MaxBPInserts
  /\ bp' = BP_renumber(BP_insert(bp, k, BPValue(k, bpIns[k] + 1)))
  /\ bpIns' = [bpIns EXCEPT ![k] = @ + 1]
  /\ bpRead' = BPNoRead
  /\ UNCHANGED <<avlVars, rbVars, wavlVars, btVars, treapVars, ctVars, bstVars>>

\* The tree as search leaves it: search and _recursiveSearch assign to the
\* local keyIndex only
BP_afterSearch(T, keyToFind) == T

\* Mutant of rangeQuery: the entries of the first leaf are taken out of it
\* (keys.shift() and childPointers.shift()) instead of being read
BP_afterRangeQuery_consuming(T, startKey, endKey) ==
  LET f == BP_findLeafNode(T, T.root, startKey)
  IN  IF f.threw \/ T.nodes[f.leaf].keys = <<>> THEN T
      ELSE [T EXCEPT !.nodes[f.leaf].keys = Tail(@),
                     !.nodes[f.leaf].childPointers = Tail(@)]

\* The tree as rangeQuery leaves it: rangeQuery and _findLeafNode assign to
\* the locals result, leafNode, i and keyIndex only, and result is a new
\* array of new objects
BP_afterRangeQuery(T, startKey, endKey) == T

\* An uncaught TypeError ends the script: no call follows a read that threw.
BPReadAlive == IF bpRead.outcome = <<>> THEN TRUE ELSE ~bpRead.outcome[1].threw

\* search(keyToFind)
BPSearch(keyToFind) ==
  /\ ~bp.threw /\ BPReadAlive
  /\ bp' = BP_afterSearch(bp, keyToFind)
  /\ bpRead' = [op |-> "search", startKey |-> keyToFind, endKey |-> keyToFind,
                before |-> <<bp>>, outcome |-> <<BP_search(bp, keyToFind)>>,
                prior |-> <<>>]
  /\ UNCHANGED <<bpIns, avlVars, rbVars, wavlVars, btVars, treapVars, ctVars, bstVars>>

\* rangeQuery(startKey, endKey); prior holds the outcome of the call before
\* it when that was a rangeQuery with the same arguments
BPRangeQuery(startKey, endKey) ==
  /\ ~bp.threw /\ BPReadAlive
  /\ bp' = BP_afterRangeQuery(bp, startKey, endKey)
  /\ bpRead' = [op |-> "rangeQuery", startKey |-> startKey, endKey |-> endKey,
                before |-> <<bp>>,
                outcome |-> <<BP_rangeQuery(bp, startKey, endKey)>>,
                prior |-> IF /\ bpRead.op = "rangeQuery"
                             /\ bpRead.startKey = startKey
                             /\ bpRead.endKey = endKey
                          THEN bpRead.outcome ELSE <<>>]
  /\ UNCHANGED <<bpIns, avlVars, rbVars, wavlVars, btVars, treapVars, ctVars, bstVars>>

(***************************************************************************)
(* Treap                                                                   *)
(***************************************************************************)
\* new TreapNode(value), with priority the number Math.random() returned
TreapNode(value, priority) ==
  [value |-> value, priority |-> priority, left |-> null, right |-> null]

\* x = y.left; y.left = x.right; x.right = y; return x
Treap_rotateRight(y) ==
  LET x == y.left
  IN  [x EXCEPT !.right = [y EXCEPT !.left = x.right]]

\* y = x.right; x.right = y.left; y.left = x; return y
Treap_rotateLeft(x) ==
  LET y == x.right
  IN  [y EXCEPT !.left = [x EXCEPT !.right = y.left]]

\* Mutant of the heap check of _insert: the comparison is inverted
Treap_heapViolated_inverted(child, node) == child.priority < node.priority

\* node.left.priority > node.priority (and the same for node.right)
Treap_heapViolated(child, node) == child.priority > node.priority

\* _insert(node, value): the new root of the subtree
RECURSIVE Treap_insert(_, _, _)
Treap_insert(node, value, priority) ==
  IF node = null THEN TreapNode(value, priority)
  ELSE IF value < node.value
  THEN LET node1 == [node EXCEPT !.left = Treap_insert(node.left, value, priority)]
       IN  IF Treap_heapViolated(node1.left, node1)
           THEN Treap_rotateRight(node1) ELSE node1
  ELSE LET node1 == [node EXCEPT !.right = Treap_insert(node.right, value, priority)]
       IN  IF Treap_heapViolated(node1.right, node1)
           THEN Treap_rotateLeft(node1) ELSE node1

\* Mutant of _delete: "else" where the code has "else if (value > node.value)"
Treap_inRight_never(node, value) == FALSE

\* else if (value > node.value): the value is in the right subtree
Treap_inRight(node, value) == value > node.value

\* _delete(node, value): the new root of the subtree
RECURSIVE Treap_delete(_, _)
Treap_delete(node, value) ==
  IF node = null THEN null
  ELSE IF value < node.value
  THEN [node EXCEPT !.left = Treap_delete(node.left, value)]
  ELSE IF Treap_inRight(node, value)
  THEN [node EXCEPT !.right = Treap_delete(node.right, value)]
  ELSE IF node.left = null /\ node.right = null THEN null
  ELSE IF node.left = null THEN node.right
  ELSE IF node.right = null THEN node.left
  ELSE IF node.left.priority > node.right.priority
  THEN LET node1 == Treap_rotateRight(node)
       IN  [node1 EXCEPT !.right = Treap_delete(node1.right, value)]
  ELSE LET node1 == Treap_rotateLeft(node)
       IN  [node1 EXCEPT !.left = Treap_delete(node1.left, value)]

\* _search(node, value)
RECURSIVE Treap_search(_, _)
Treap_search(node, value) ==
  IF node = null THEN FALSE
  ELSE IF node.value = value THEN TRUE
  ELSE IF value < node.value THEN Treap_search(node.left, value)
  ELSE Treap_search(node.right, value)

\* Number of nodes of a binary tree of records with left/right
RECURSIVE TreeSize(_)
TreeSize(node) ==
  IF node = null THEN 0 ELSE 1 + TreeSize(node.left) + TreeSize(node.right)

TreapInit ==
  /\ treap = null
  /\ treapPrev = null
  /\ treapLast = [op |-> "none", value |-> 0]

\* insert(value); the priority is the outcome of Math.random()
TreapInsert(value, priority) ==
  /\ TreeSize(treap) < MaxTreapNodes
  /\ treap' = Treap_insert(treap, value, priority)
  /\ treapPrev' = treap
  /\ treapLast' = [op |-> "insert", value |-> value]
  /\ UNCHANGED <<avlVars, rbVars, wavlVars, btVars, bpVars, ctVars, bstVars>>

\* delete(value)
TreapDelete(value) ==
  /\ treap' = Treap_delete(treap, value)
  /\ treapPrev' = treap
  /\ treapLast' = [op |-> "delete", value |-> value]
  /\ UNCHANGED <<avlVars, rbVars, wavlVars, btVars, bpVars, ctVars, bstVars>>

(***************************************************************************)
(* CartesianTree                                                           *)
(***************************************************************************)
CartesianNode(value, priority) ==
  [value |-> value, priority |-> priority, left |-> null, right |-> null]

\* x = y.left; y.left = x.right; x.right = y; return x
CT_rotateRight(y) ==
  LET x == y.left
  IN  [x EXCEPT !.right = [y EXCEPT !.left = x.right]]

\* Mutant of rotateLeft: x.right = y.left forgotten (x.right is cleared)
CT_rotateLeft_dropsSubtree(x) ==
  LET y == x.right
  IN  [y EXCEPT !.left = [x EXCEPT !.right = null]]

\* y = x.right; x.right = y.left; y.left = x; return y
CT_rotateLeft(x) ==
  LET y == x.right
  IN  [y EXCEPT !.left = [x EXCEPT !.right = y.left]]

\* _insert(node, newNode): the new root of the subtree
RECURSIVE CT_insertNode(_, _)
CT_insertNode(node, newNode) ==
  IF node = null THEN newNode
  ELSE IF newNode.value < node.value
  THEN LET node1 == [node EXCEPT !.left = CT_insertNode(node.left, newNode)]
       IN  IF node1.left.priority > node1.priority
           THEN CT_rotateRight(node1) ELSE node1
  ELSE LET node1 == [node EXCEPT !.right = CT_insertNode(node.right, newNode)]
       IN  IF node1.right.priority > node1.priority
           THEN CT_rotateLeft(node1) ELSE node1

\* insert(value, priority): the new root
CT_insert(root, value, priority) ==
  LET newNode == CartesianNode(value, priority)
  IN  IF root = null THEN newNode ELSE CT_insertNode(root, newNode)

CTInit == ct = null

CTInsert(value, priority) ==
  /\ TreeSize(ct) < MaxCTNodes
  /\ ct' = CT_insert(ct, value, priority)
  /\ UNCHANGED <<avlVars, rbVars, wavlVars, btVars, bpVars, treapVars, bstVars>>

(***************************************************************************)
(* BinarySearchTree                                                        *)
(***************************************************************************)
Node(data) == [data |-> data, left |-> null, right |-> null]

\* Mutant of the second comparison of _insertRecursive: data >= node.data
BST_goesRight_orEqual(node, data) == data >= node.data

\* else if (data > node.data)
BST_goesRight(node, data) == data > node.data

RECURSIVE BST_insertRecursive(_, _)
BST_insertRecursive(node, data) ==
  IF node = null THEN Node(data)
  ELSE IF data < node.data
  THEN [node EXCEPT !.left = BST_insertRecursive(node.left, data)]
  ELSE IF BST_goesRight(node, data)
  THEN [node EXCEPT !.right = BST_insertRecursive(node.right, data)]
  ELSE node

\* _searchRecursive(node, data): the node returned, or null
RECURSIVE BST_searchRecursive(_, _)
BST_searchRecursive(node, data) ==
  IF node = null THEN null
  ELSE IF node.data = data THEN node
  ELSE IF data < node.data THEN BST_searchRecursive(node.left, data)
  ELSE BST_searchRecursive(node.right, data)

\* _inOrderRecursive(node, result): result after the call
RECURSIVE BST_inOrderRecursive(_, _)
BST_inOrderRecursive(node, result) ==
  IF node # null
  THEN BST_inOrderRecursive(node.right,
         Append(BST_inOrderRecursive(node.left, result), node.data))
  ELSE result

BST_inOrderTraversal(root) == BST_inOrderRecursive(root, <<>>)

BSTInit == bst = null /\ bstIns = {}

BSTInsert(data) ==
  /\ bst' = BST_insertRecursive(bst, data)
  /\ bstIns' = bstIns \cup {data}
  /\ UNCHANGED <<avlVars, rbVars, wavlVars, btVars, bpVars, treapVars, ctVars>>

(***************************************************************************)
(* Specifications                                                          *)
(***************************************************************************)
vars == <<avlVars, rbVars, wavlVars, btVars, bpVars, treapVars, ctVars, bstVars>>

Init ==
  /\ AVLInit /\ RBInit /\ WAVLInit /\ BTInit /\ BPInit /\ TreapInit /\ CTInit
  /\ BSTInit

NextAVL == \E value \in AVLVals : AVLInsert(value)

SpecAVL == Init /\ [][NextAVL]_vars

NextRB == \E key \in RBKeys : RBInsert(key)

SpecRB == Init /\ [][NextRB]_vars

NextWAVL == \E value \in WAVLVals : WAVLInsert(value)

SpecWAVL == Init /\ [][NextWAVL]_vars

NextBT == \E k \in BTKeys : BTInsert(k)

SpecBT == Init /\ [][NextBT]_vars

NextBP == \E k \in BPKeys : BPInsert(k)

SpecBP == Init /\ [][NextBP]_vars

\* Inserts with search and rangeQuery calls between them
NextBPRead ==
  \/ BPReadAlive /\ BPCount < MaxBPReadInserts /\ \E k \in BPReadKeys : BPInsert(k)
  \/ \E keyToFind \in BPReadKeys : BPSearch(keyToFind)
  \/ \E startKey, endKey \in BPReadKeys : BPRangeQuery(startKey, endKey)

SpecBPRead == Init /\ [][NextBPRead]_vars

\* The two B-trees under one specification, both with keys from BTKeys: a
\* run exercises one of them (each script of the repository constructs and
\* uses its own tree).
NextBTrees ==
  \/ bp.root = nil /\ NextBT
  \/ BTCount = 0 /\ \E k \in BTKeys : BPInsert(k)

SpecBTrees == Init /\ [][NextBTrees]_vars

NextTreap ==
  \/ \E value \in TreapVals, priority \in TreapPriorities :
       TreapInsert(value, priority)
  \/ \E value \in TreapVals : TreapDelete(value)

SpecTreap == Init /\ [][NextTreap]_vars

NextCT == \E value \in CTVals, priority \in CTPriorities : CTInsert(value, priority)

SpecCT == Init /\ [][NextCT]_vars

NextBST == \E data \in BSTVals : BSTInsert(data)

SpecBST == Init /\ [][NextBST]_vars

\* The two heap-ordered trees under one specification: a run exercises one
\* of them.
NextHeaps ==
  \/ ct = null /\ NextTreap
  \/ treapLast.op = "none" /\ NextCT

SpecHeaps == Init /\ [][NextHeaps]_vars

\* The two heap-ordered trees built by inserts alone
NextHeapInserts ==
  \/ ct = null /\ \E value \in TreapVals, priority \in TreapPriorities :
                    TreapInsert(value, priority)
  \/ treapLast.op = "none" /\ NextCT

SpecHeapInserts == Init /\ [][NextHeapInserts]_vars

\* Treap and RedBlackTree under one specification: a run exercises one of
\* them.
NextTreapRB ==
  \/ rb.root = nil /\ NextTreap
  \/ treapLast.op = "none" /\ NextRB

SpecTreapRB == Init /\ [][NextTreapRB]_vars

(***************************************************************************)
(* Generic helpers for the properties                                      *)
(***************************************************************************)
\* Actual height of a binary tree of records with left/right (empty = 0)
RECURSIVE TreeHeight(_)
TreeHeight(node) ==
  IF node = null THEN 0
  ELSE 1 + Max(TreeHeight(node.left), TreeHeight(node.right))

\* All nodes (subtrees) of a binary tree of records with left/right
RECURSIVE TreeNodes(_)
TreeNodes(node) ==
  IF node = null THEN {}
  ELSE {node} \cup TreeNodes(node.left) \cup TreeNodes(node.right)

\* References of the RBNode objects reachable from n by left/right links
RECURSIVE RB_reach(_, _, _)
RB_reach(T, n, fuel) ==
  IF n = nil \/ fuel = 0 THEN {}
  ELSE {n} \cup RB_reach(T, T.nodes[n].left, fuel - 1)
           \cup RB_reach(T, T.nodes[n].right, fuel - 1)

RB_color(T, n) == IF n = nil THEN "BLACK" ELSE T.nodes[n].color

\* The numbers of BLACK nodes on the paths from n down to a null child
\* (n included, the null child counted as one BLACK)
RECURSIVE RB_blackCounts(_, _, _)
RB_blackCounts(T, n, fuel) ==
  IF n = nil \/ fuel = 0 THEN {1}
  ELSE LET own == IF T.nodes[n].color = "BLACK" THEN 1 ELSE 0
       IN  {own + c : c \in RB_blackCounts(T, T.nodes[n].left, fuel - 1)
                            \cup RB_blackCounts(T, T.nodes[n].right, fuel - 1)}

\* All nodes of a B-tree of nested records, each with its depth (root: 0)
RECURSIVE BT_nodesAt(_, _)
BT_nodesAt(node, depth) ==
  {[node |-> node, depth |-> depth]}
    \cup UNION {BT_nodesAt(node.children[j], depth + 1) : j \in 1..Len(node.children)}

Ascending(s) == \A i \in 1..(Len(s) - 1) : s[i] <= s[i + 1]

\* References of the BPlusTreeNode objects reachable from n through the
\* childPointers of internal nodes, each with its depth (root: 0)
RECURSIVE BP_nodesAt(_, _, _, _)
BP_nodesAt(T, n, depth, fuel) ==
  IF n = nil \/ fuel = 0 THEN {}
  ELSE {[node |-> n, depth |-> depth]}
         \cup (IF T.nodes[n].isLeaf THEN {}
               ELSE UNION {BP_nodesAt(T, T.nodes[n].childPointers[j], depth + 1, fuel - 1) :
                             j \in 1..Len(T.nodes[n].childPointers)})

BP_all(T) == BP_nodesAt(T, T.root, 0, Len(T.nodes))

\* The leftmost leaf: childPointers[0] from the root down
RECURSIVE BP_leftmostLeaf(_, _, _)
BP_leftmostLeaf(T, n, fuel) ==
  IF n = nil \/ fuel = 0 THEN nil
  ELSE IF T.nodes[n].isLeaf THEN n
  ELSE BP_leftmostLeaf(T, T.nodes[n].childPointers[1], fuel - 1)

\* The references visited by following nextLeaf from leaf n (at most fuel)
RECURSIVE BP_chain(_, _, _)
BP_chain(T, n, fuel) ==
  IF n = nil \/ fuel = 0 THEN <<>>
  ELSE <<n>> \o BP_chain(T, T.nodes[n].nextLeaf, fuel - 1)

\* The {key, value} entries of the leaves visited, in visiting order
RECURSIVE BP_entries(_, _)
BP_entries(T, leaves) ==
  IF leaves = <<>> THEN <<>>
  ELSE LET l == T.nodes[Head(leaves)]
       IN  [i \in 1..Len(l.keys) |-> [key |-> l.keys[i], value |-> l.childPointers[i]]]
             \o BP_entries(T, Tail(leaves))

\* Every insert so far had a key not inserted before
BPDistinct == \A k \in DOMAIN bpIns : bpIns[k] <= 1

\* The entries inserted so far with low <= key <= high, in ascending key
\* order (for distinct-key inserts)
RECURSIVE BPExpected(_, _)
BPExpected(low, high) ==
  IF low > high THEN <<>>
  ELSE (IF low \in DOMAIN bpIns /\ bpIns[low] >= 1
        THEN <<[key |-> low, value |-> BPValue(low, 1)]>> ELSE <<>>)
       \o BPExpected(low + 1, high)

(***************************************************************************)
(* C1: AVLTree - after every insert of any sequence of inserts (repeats    *)
(* allowed), every node's left and right subtrees differ in actual height  *)
(* by at most 1.                                                           *)
(***************************************************************************)
C1_AVLBalanced ==
  \A n \in TreeNodes(avl) :
    LET d == TreeHeight(n.left) - TreeHeight(n.right)
    IN  d \in {-1, 0, 1}

\* A tree of six values whose last insert found a node out of balance and
\* rotated it back.
C1_Witness ==
  /\ Cardinality(avlIns) = 6
  /\ avlRot = 1
  /\ TreeHeight(avl) = 3

(***************************************************************************)
(* C6: AVLTree - an in-order traversal visits strictly ascending values    *)
(* and exactly the set of distinct values inserted.                        *)
(***************************************************************************)
C6_AVLInorder ==
  /\ StrictlyAscending(AVL_inorder(avl))
  /\ Range(AVL_inorder(avl)) = avlIns

\* The repository's test scenario, up to renaming 10,20,25,30,40,50 to 1..6:
\* six values inserted, the last one (25 -> 3) causing a double rotation.
C6_Witness ==
  /\ avlIns = 1..6
  /\ avlLast = 3
  /\ avlRot = 1
  /\ AVL_inorder(avl) = <<1, 2, 3, 4, 5, 6>>
  /\ avl.value = 4 /\ avl.left.value = 2 /\ avl.left.right.value = 3

(***************************************************************************)
(* C2: RedBlackTree - after every insert of any sequence of inserts, no    *)
(* RED node has a RED child.                                               *)
(***************************************************************************)
C2_RBNoRedRed ==
  \A n \in RB_reach(rb, rb.root, Len(rb.nodes)) :
    rb.nodes[n].color = "RED" =>
      /\ RB_color(rb, rb.nodes[n].left) = "BLACK"
      /\ RB_color(rb, rb.nodes[n].right) = "BLACK"

\* Eight inserts have returned, and a child of the root is RED with two
\* children of its own: a tree that only recolouring and rotations of
\* fixInsert produce (new nodes are linked as RED leaves).
C2_Witness ==
  /\ Len(rb.nodes) = 8
  /\ ~rb.threw
  /\ \E n \in 1..Len(rb.nodes) :
       /\ rb.nodes[n].color = "RED"
       /\ rb.nodes[n].left # nil /\ rb.nodes[n].right # nil
       /\ rb.nodes[n].parent = rb.root

(***************************************************************************)
(* C3: RedBlackTree - after every insert, for every node all paths from    *)
(* it down to a null child hold the same number of BLACK nodes.            *)
(***************************************************************************)
C3_RBBlackHeight ==
  \A n \in RB_reach(rb, rb.root, Len(rb.nodes)) :
    Cardinality(RB_blackCounts(rb, n, Len(rb.nodes))) = 1

\* A tree of at least six nodes with RED nodes in it in which every path from
\* the root counts 3 (two BLACK nodes and the null child).
C3_Witness ==
  /\ Len(rb.nodes) >= 6
  /\ RB_blackCounts(rb, rb.root, Len(rb.nodes)) = {3}
  /\ \E n \in 1..Len(rb.nodes) : rb.nodes[n].color = "RED"

(***************************************************************************)
(* C4: WAVLTree - after every insert, every node n and each of its         *)
(* children c (a null child has rank -1) satisfy rank(n) - rank(c) in      *)
(* {1, 2}, and every node with no children has rank 0 or 1.                *)
(***************************************************************************)
C4_WAVLRankRule ==
  \A n \in TreeNodes(wavl) :
    /\ n.rank - WAVL_rank(n.left) \in {1, 2}
    /\ n.rank - WAVL_rank(n.right) \in {1, 2}
    /\ (n.left = null /\ n.right = null) => n.rank \in {0, 1}

(***************************************************************************)
(* BPlusTree part of C5, as for BTree below.                               *)
(***************************************************************************)
BP_KeyCountsAndDepth ==
  ~bp.threw =>
    LET all == BP_all(bp)
        t   == bp.minimumDegree
    IN
    /\ \A e \in all : Len(bp.nodes[e.node].keys) <= 2 * t - 1
    /\ \A e \in all : e.depth > 0 => Len(bp.nodes[e.node].keys) >= t - 1
    /\ \A e, f \in all :
         (bp.nodes[e.node].isLeaf /\ bp.nodes[f.node].isLeaf) => e.depth = f.depth

(***************************************************************************)
(* C5 (BTree part): after every completed insert every non-root node holds *)
(* between t-1 and 2t-1 keys, the root holds at most 2t-1 keys, and all    *)
(* leaves are at the same depth.                                           *)
(***************************************************************************)
BT_KeyCountsAndDepth ==
  ~bt.threw =>
    LET all == BT_nodesAt(bt.root, 0) IN
    /\ \A e \in all : Len(e.node.keys) <= 2 * bt.t - 1
    /\ \A e \in all : e.depth > 0 => Len(e.node.keys) >= bt.t - 1
    /\ \A e, f \in all : (e.node.leaf /\ f.node.leaf) => e.depth = f.depth

(***************************************************************************)
(* C10 (BTree part): after every completed insert every internal node has  *)
(* exactly (number of keys + 1) children and its keys are ascending.       *)
(***************************************************************************)
BT_ChildCount ==
  ~bt.threw =>
    \A e \in BT_nodesAt(bt.root, 0) :
      ~e.node.leaf =>
        /\ Len(e.node.children) = Len(e.node.keys) + 1
        /\ Ascending(e.node.keys)

(***************************************************************************)
(* C5: BTree and BPlusTree with minimum degree t >= 2 - after every        *)
(* completed insert of any sequence of inserts, every non-root node holds  *)
(* between t-1 and 2t-1 keys, the root holds at most 2t-1 keys, and all    *)
(* leaves are at the same depth.                                           *)
(***************************************************************************)
C5_BTreesKeyCounts == BT_KeyCountsAndDepth /\ BP_KeyCountsAndDepth

\* A B+tree three levels high after a completed insert: leaves and an
\* internal node have been split, and the root has been split twice.
C5_Witness ==
  /\ ~bp.threw
  /\ \E e \in BP_all(bp) : e.depth = 2 /\ bp.nodes[e.node].isLeaf

(***************************************************************************)
(* C7: BPlusTree - after any sequence of inserts of pairwise distinct      *)
(* keys, search(K) returns the value inserted with K for every inserted    *)
(* key K, and null for every key never inserted.                           *)
(***************************************************************************)
C7_BPSearchRoundTrip ==
  (BPDistinct /\ ~bp.threw) =>
    \A k \in BPKeys :
      BP_search(bp, k) =
        [threw |-> FALSE, value |-> IF bpIns[k] = 1 THEN BPValue(k, 1) ELSE null]

(***************************************************************************)
(* C8: BPlusTree - for every tree built by inserts of pairwise distinct    *)
(* keys and all low <= high, rangeQuery(low, high) returns exactly the     *)
(* stored entries with low <= key <= high, each once, in ascending order.  *)
(***************************************************************************)
C8_BPRangeQuery ==
  (BPDistinct /\ ~bp.threw /\ bp.root # nil) =>
    \A low, high \in 0..(MaxBPKey + 1) :
      low <= high =>
        BP_rangeQuery(bp, low, high) =
          [threw |-> FALSE, result |-> BPExpected(low, high)]

(***************************************************************************)
(* C9: BPlusTree - after every completed insert of distinct keys,          *)
(* following nextLeaf from the leftmost leaf visits every leaf exactly     *)
(* once and ends at null, and the keys of the visited leaves, in order,    *)
(* are strictly ascending and are exactly the inserted keys, each with     *)
(* its inserted value.                                                     *)
(***************************************************************************)
C9_BPLeafChain ==
  (BPDistinct /\ ~bp.threw) =>
    LET N      == Len(bp.nodes)
        chain  == BP_chain(bp, BP_leftmostLeaf(bp, bp.root, N), N + 1)
        leaves == {n \in 1..N : bp.nodes[n].isLeaf}
    IN  /\ Len(chain) = Cardinality(leaves)
        /\ Range(chain) = leaves
        /\ \A m, n \in leaves :
             (m # n /\ bp.nodes[m].nextLeaf # nil)
               => bp.nodes[m].nextLeaf # bp.nodes[n].nextLeaf
        /\ BP_entries(bp, chain) = BPExpected(1, MaxBPKey)

(***************************************************************************)
(* BPlusTree part of C10, as for BTree above.                              *)
(***************************************************************************)
BP_ChildCount ==
  ~bp.threw =>
    \A e \in BP_all(bp) :
      ~bp.nodes[e.node].isLeaf =>
        /\ Len(bp.nodes[e.node].childPointers) = Len(bp.nodes[e.node].keys) + 1
        /\ Ascending(bp.nodes[e.node].keys)

(***************************************************************************)
(* C10: BTree and BPlusTree - after every completed insert, every internal *)
(* node has exactly (number of keys + 1) child references, and its keys    *)
(* are in ascending order.                                                 *)
(***************************************************************************)
C10_BTreesChildCount == BT_ChildCount /\ BP_ChildCount

(***************************************************************************)
(* Helpers for the properties of BTree key slots                           *)
(***************************************************************************)
\* Number of elements of the sequence s equal to k
CountIn(s, k) == Cardinality({i \in 1..Len(s) : s[i] = k})

\* Number of key slots holding k over all nodes of the subtree of node
RECURSIVE BT_slotCount(_, _)
BT_slotCount(node, k) ==
  CountIn(node.keys, k)
    + SumOver([j \in 1..Len(node.children) |-> BT_slotCount(node.children[j], k)],
              1..Len(node.children))

\* Every BTree.insert so far had a key not inserted before
BTDistinct == \A k \in DOMAIN btIns : btIns[k] <= 1

(***************************************************************************)
(* C11: BTree (minimum degree t >= 2) - after any sequence of completed    *)
(* inserts of pairwise distinct keys, each inserted key occupies exactly   *)
(* one key slot over all nodes of the tree and no other key occupies any,  *)
(* so the number of key slots equals the number of inserts.                *)
(***************************************************************************)
C11_BTKeySlots ==
  (BTDistinct /\ ~bt.threw) =>
    \A k \in BTKeys : BT_slotCount(bt.root, k) = btIns[k]

(***************************************************************************)
(* C12: BPlusTree - for every minimum degree t >= 2 and every sequence of  *)
(* inserts, each insert call completes without raising an error (every     *)
(* child index used by _insertNonFull and _splitChild refers to an         *)
(* existing child node).                                                   *)
(***************************************************************************)
C12_BPInsertCompletes == ~bp.threw

(***************************************************************************)
(* C13: Treap - in every state reachable by insert and delete calls (any   *)
(* priorities), search(K) returns true immediately after insert(K) and     *)
(* false immediately after delete(K).                                      *)
(***************************************************************************)
C13_TreapRoundTrip ==
  /\ treapLast.op = "insert" => Treap_search(treap, treapLast.value)
  /\ treapLast.op = "delete" => ~Treap_search(treap, treapLast.value)

(***************************************************************************)
(* C14: Treap and CartesianTree - after every insert (and, for Treap,      *)
(* every delete) of any sequence of operations and for any priorities,     *)
(* every node's priority is greater than or equal to the priority of each  *)
(* of its children.                                                        *)
(***************************************************************************)
HeapOrdered(root) ==
  \A n \in TreeNodes(root) :
    /\ n.left # null => n.priority >= n.left.priority
    /\ n.right # null => n.priority >= n.right.priority

C14_HeapProperty == HeapOrdered(treap) /\ HeapOrdered(ct)

\* Treap.delete has just removed a node that had two children (the node was
\* rotated down first), from a tree in which priorities differ.
C14_Witness ==
  /\ treapLast.op = "delete"
  /\ TreeSize(treapPrev) = 3
  /\ TreeSize(treap) = 2
  /\ treapPrev.value = treapLast.value
  /\ treapPrev.left # null /\ treapPrev.right # null
  /\ treapPrev.left.value < treapPrev.value
  /\ treapPrev.value < treapPrev.right.value
  /\ treapPrev.left.priority > treapPrev.right.priority
  /\ treap.priority > treap.right.priority

(***************************************************************************)
(* C15: AVLTree - inserting a value that is already in the tree leaves the *)
(* tree unchanged: same shape, same values and the same height field at    *)
(* every node.                                                             *)
(***************************************************************************)
C15_AVLDuplicateInsert ==
  avlLast \in Range(AVL_inorder(avlPrev)) => avl = avlPrev

\* The last insert was of a value already in a tree of six nodes, held by a
\* node two levels below the root.
C15_Witness ==
  /\ TreeSize(avlPrev) = 6
  /\ avlPrev.value # avlLast
  /\ avlPrev.left # null => avlPrev.left.value # avlLast
  /\ avlPrev.right # null => avlPrev.right.value # avlLast
  /\ avlLast \in Range(AVL_inorder(avlPrev))
  /\ avl = avlPrev

(***************************************************************************)
(* C16: WAVLTree - in every state reachable by inserts, inserting a value  *)
(* that is already in the tree leaves the tree unchanged: same shape, same *)
(* values and the same rank at every node.                                 *)
(***************************************************************************)
C16_WAVLDuplicateInsert ==
  \A value \in Range(WAVL_inorder(wavl)) : WAVL_insert(wavl, value) = wavl

(***************************************************************************)
(* Helpers for the properties of duplicate inserts                         *)
(***************************************************************************)
\* The values held by the nodes of a binary tree of records, in in-order
RECURSIVE TreeValues(_)
TreeValues(node) ==
  IF node = null THEN <<>>
  ELSE TreeValues(node.left) \o <<node.value>> \o TreeValues(node.right)

\* The keys held by the RBNode objects reachable from the root
RB_keys(T) ==
  LET reach == RB_reach(T, T.root, Len(T.nodes))
  IN  [key \in RBKeys |-> Cardinality({n \in reach : T.nodes[n].key = key})]

(***************************************************************************)
(* Treap part of C17: each value is held by at most one node.              *)
(***************************************************************************)
Treap_OneNodePerValue ==
  \A value \in TreapVals : CountIn(TreeValues(treap), value) <= 1

(***************************************************************************)
(* RedBlackTree part of C17: each key is held by at most one node.         *)
(***************************************************************************)
RB_OneNodePerKey ==
  ~rb.threw => \A key \in RBKeys : RB_keys(rb)[key] <= 1

(***************************************************************************)
(* C17: Treap and RedBlackTree - inserting a key that is already present   *)
(* is a no-op (the number of nodes and the structure of the tree are       *)
(* unchanged), so each key is held by at most one node.                    *)
(***************************************************************************)
C17_NoDuplicateNodes ==
  /\ (treapLast.op = "insert" /\ Treap_search(treapPrev, treapLast.value))
       => treap = treapPrev
  /\ Treap_OneNodePerValue
  /\ RB_OneNodePerKey

(***************************************************************************)
(* Helpers for the properties of BPlusTree entries                         *)
(***************************************************************************)
\* Number of entries stored in the leaves reachable from the root
BP_entryCount(T) ==
  LET leaves == {e.node : e \in {f \in BP_all(T) : T.nodes[f.node].isLeaf}}
  IN  SumOver([n \in leaves |-> Len(T.nodes[n].keys)], leaves)

(***************************************************************************)
(* C18: BPlusTree - inserting a key that is already stored (with any       *)
(* value) changes neither the result of search(k) for any key k nor the    *)
(* number of entries stored in the leaves.                                 *)
(***************************************************************************)
C18_BPDuplicateInsert ==
  ~bp.threw =>
    \A key \in BPKeys :
      bpIns[key] >= 1 =>
        LET after == BP_insert(bp, key, BPValue(key, bpIns[key] + 1))
        IN  ~after.threw =>
              /\ BP_entryCount(after) = BP_entryCount(bp)
              /\ \A k \in BPKeys : BP_search(after, k) = BP_search(bp, k)

(***************************************************************************)
(* C19: BPlusTree - in every state reachable by any sequence of inserts,   *)
(* including the empty tree, rangeQuery(low, high) with low > high returns *)
(* an empty array and raises no error.                                     *)
(***************************************************************************)
C19_BPRangeQueryEmpty ==
  ~bp.threw =>
    \A low, high \in 0..(MaxBPKey + 1) :
      low > high =>
        BP_rangeQuery(bp, low, high) = [threw |-> FALSE, result |-> <<>>]

(***************************************************************************)
(* C20: Treap - delete(K) for a value K that is not in the tree leaves the *)
(* tree unchanged (same shape, same values, same priorities), for every    *)
(* reachable tree including the empty one.  (_delete reads a field of no   *)
(* null reference: the model has no error outcome for it.)                 *)
(***************************************************************************)
C20_TreapDeleteMissing ==
  (treapLast.op = "delete" /\ treapLast.value \notin Range(TreeValues(treapPrev)))
    => treap = treapPrev

\* The last call was a delete of a value missing from a tree of three nodes
\* that holds a smaller and a larger value.
C20_Witness ==
  /\ treapLast.op = "delete"
  /\ treapLast.value \notin Range(TreeValues(treapPrev))
  /\ TreeSize(treapPrev) = 3
  /\ \E a, b \in Range(TreeValues(treapPrev)) : a < treapLast.value /\ treapLast.value < b
  /\ treap = treapPrev

C22_BTSearch ==
  ~bt.threw =>
    \A k \in 0..(MaxBTKey + 1) :
      LET r == BT_search(bt.root, k) IN
      /\ ~r.threw
      /\ (k \in BTKeys /\ btIns[k] > 0) => (r.node # null /\ k \in Range(r.node.keys))
      /\ ~(k \in BTKeys /\ btIns[k] > 0) => r.node = null

\* A tree of more than one level with an internal node that has as many
\* children as keys, where an inserted key is found below the root and a
\* key never inserted is searched down to a leaf
C22_Witness ==
  /\ ~bt.threw
  /\ ~bt.root.leaf
  /\ \E e \in BT_nodesAt(bt.root, 0) :
       ~e.node.leaf /\ Len(e.node.children) = Len(e.node.keys)
  /\ \E k \in BTKeys :
       /\ btIns[k] > 0
       /\ BT_search(bt.root, k).node # bt.root
       /\ k \in Range(BT_search(bt.root, k).node.keys)
  /\ \E k \in BTKeys : btIns[k] = 0 /\ BT_search(bt.root, k) = [threw |-> FALSE, node |-> null]

(***************************************************************************)
(* C23: AVLTree - for a tree of n nodes, kthSmallest(k) returns the k-th   *)
(* smallest value of the tree for every 1 <= k <= n, and null for k < 1    *)
(* or k > n (the empty tree included).                                     *)
(***************************************************************************)
C23_AVLKthSmallest ==
  LET n == Cardinality(avlIns) IN
  \A k \in (-1)..(MaxAVLVal + 1) :
    IF 1 <= k /\ k <= n
    THEN \E v \in avlIns :
           /\ Cardinality({u \in avlIns : u <= v}) = k
           /\ AVL_kthSmallest(avl, k) = <<v>>
    ELSE AVL_kthSmallest(avl, k) = <<>>

\* The repository's test, up to renaming 10,20,25,30,40,50 to 1..6: after
\* the six inserts kthSmallest(3) is 3 (25), found in the right subtree of
\* the left child of the root, and kthSmallest(7) is null
C23_Witness ==
  /\ avlIns = 1..6
  /\ avlLast = 3
  /\ AVL_kthSmallest(avl, 3) = <<3>>
  /\ avl.left.right # null /\ avl.left.right.value = 3
  /\ AVL_kthSmallest(avl, 6) = <<6>>
  /\ AVL_kthSmallest(avl, 7) = <<>>

(***************************************************************************)
(* C24: BinarySearchTree - after any sequence of inserts, search(x)        *)
(* returns the node holding x for every inserted x and null for every x    *)
(* never inserted, and inOrderTraversal returns the distinct inserted      *)
(* values in strictly ascending order (a repeated insert adds no node).    *)
(***************************************************************************)
C24_BSTSearchAndInOrder ==
  /\ \A x \in 0..(MaxBSTVal + 1) :
       LET r == BST_searchRecursive(bst, x) IN
       IF x \in bstIns THEN r # null /\ r.data = x /\ r \in TreeNodes(bst)
       ELSE r = null
  /\ StrictlyAscending(BST_inOrderTraversal(bst))
  /\ Range(BST_inOrderTraversal(bst)) = bstIns
  /\ Len(BST_inOrderTraversal(bst)) = Cardinality(bstIns)

\* The repository's example, up to renaming 20,30,40,50,60,70,80 to 1..7:
\* the tree built by insert 50,30,70,20,40,60,80, where search(40) finds a
\* leaf two levels down and search(90) returns null
C24_Witness ==
  /\ bstIns = 1..7
  /\ bst.data = 4 /\ bst.left.data = 2 /\ bst.right.data = 6
  /\ BST_searchRecursive(bst, 3) = Node(3)
  /\ BST_searchRecursive(bst, 8) = null
  /\ BST_inOrderTraversal(bst) = <<1, 2, 3, 4, 5, 6, 7>>

(***************************************************************************)
(* C25: WAVLTree - after any sequence of inserts, an in-order traversal    *)
(* visits strictly ascending values and the set of visited values is       *)
(* exactly the set of distinct values inserted; the demote-and-rotate      *)
(* steps of rebalance never lose, duplicate or reorder a value.            *)
(***************************************************************************)
C25_WAVLInorder ==
  /\ StrictlyAscending(WAVL_inorder(wavl))
  /\ Range(WAVL_inorder(wavl)) = wavlIns

\* The last insert into a tree of six values demoted and rotated a
\* node; the left child of the root has two children and the rank that
\* rotateLeft gives the node it moves down
C25_Witness ==
  /\ wavlIns = 1..6
  /\ wavlRot >= 1
  /\ wavl.left # null /\ wavl.left.left # null /\ wavl.left.right # null
  /\ wavl.left.rank = Min(WAVL_rank(wavl.left.left), WAVL_rank(wavl.left.right)) + 1
  /\ wavl.right # null

(***************************************************************************)
(* C26: AVLTree - after every insert, at every node the height field       *)
(* equals 1 + max(actual height of the left subtree, actual height of the  *)
(* right subtree), where the actual height of an empty subtree is 0.       *)
(***************************************************************************)
C26_AVLHeightField ==
  \A n \in TreeNodes(avl) :
    n.height = 1 + Max(TreeHeight(n.left), TreeHeight(n.right))

\* The last insert, of the smallest value, rotated the root to the right:
\* the old root is now the right child of the new root, one level down and
\* with a height field of 2, and it took over a subtree of the new root
C26_Witness ==
  /\ avlLast = 1
  /\ avlRot = 1
  /\ avlPrev # null /\ avl.right # null
  /\ avl.right.value = avlPrev.value
  /\ avlPrev.height = 3 /\ avl.height = 3 /\ avl.right.height = 2
  /\ avl.right.left # null

(***************************************************************************)
(* C27: AVLTree - during a single insert, at most one node on the search   *)
(* path is found with a balance factor outside [-1, 1], so at most one     *)
(* single or one double rotation is performed per insert; every ancestor   *)
(* above the rotated node is within [-1, 1] when it is visited.            *)
(***************************************************************************)
C27_AVLOneRotation == avlRot <= 1

\* The last insert, of a new value, rotated below the root, in a tree of at
\* least five values: the root is the same node as before, and it and every
\* other ancestor of the rotated node were visited after the rotation
C27_Witness ==
  /\ avlRot = 1
  /\ avlPrev # null /\ avlPrev.value = avl.value
  /\ avlPrev.height = avl.height
  /\ Cardinality(avlIns) >= 5
  /\ avl # AVL_insert(null, avlLast)
  /\ avlLast \notin Range(AVL_inorder(avlPrev))

(***************************************************************************)
(* C28: RedBlackTree - after every insert, root.parent is null, every      *)
(* child c of every node n has c.parent = n, and every node is reachable   *)
(* from the root along exactly one path (the left/right links form a tree  *)
(* with no sharing and no cycle).                                          *)
(***************************************************************************)
C28_RBParentLinks ==
  LET N     == Len(rb.nodes)
      order == RB_preorder(rb, rb.root, N + 1)
  IN  /\ rb.root = nil <=> N = 0
      /\ rb.root # nil => rb.nodes[rb.root].parent = nil
      /\ \A n \in 1..N :
           /\ rb.nodes[n].left # nil => rb.nodes[rb.nodes[n].left].parent = n
           /\ rb.nodes[n].right # nil => rb.nodes[rb.nodes[n].right].parent = n
      /\ Len(order) = N
      /\ Range(order) = 1..N

\* Eight inserts have returned and some node has a left child with its own
\* key: a new node with a key already in the tree is linked to the right,
\* so a left rotation has moved that child there, and the child has a right
\* subtree, which the rotation gave a new parent
C28_Witness ==
  /\ Len(rb.nodes) = 8
  /\ ~rb.threw
  /\ \E n \in 1..Len(rb.nodes) :
       LET c == rb.nodes[n].left IN
       /\ c # nil
       /\ rb.nodes[c].key = rb.nodes[n].key
       /\ rb.nodes[c].right # nil

(***************************************************************************)
(* C29: RedBlackTree - the root is BLACK after every insert, and whenever  *)
(* the loop body of fixInsert runs (node.parent is RED) node.parent.parent *)
(* is a non-null node, so insert never dereferences a missing grandparent  *)
(* and never raises.                                                       *)
(***************************************************************************)
C29_RBRootBlackNoRaise ==
  /\ ~rb.threw
  /\ rb.root # nil => rb.nodes[rb.root].color = "BLACK"

\* The root and its two children are BLACK and the tree has a RED node: the
\* loop body of fixInsert has recoloured the children of the root BLACK and
\* the root RED, and the last statement has made the root BLACK again
C29_Witness ==
  /\ ~rb.threw
  /\ rb.root # nil
  /\ rb.nodes[rb.root].color = "BLACK"
  /\ rb.nodes[rb.root].left # nil /\ rb.nodes[rb.root].right # nil
  /\ rb.nodes[rb.nodes[rb.root].left].color = "BLACK"
  /\ rb.nodes[rb.nodes[rb.root].right].color = "BLACK"
  /\ Len(rb.nodes) = 4
  /\ \E n \in 1..Len(rb.nodes) : rb.nodes[n].color = "RED"

(***************************************************************************)
(* Helpers for C30                                                         *)
(***************************************************************************)
\* The <<value, priority>> pairs held by the nodes of a tree
Entries(root) == {<<n.value, n.priority>> : n \in TreeNodes(root)}

\* No two nodes of the tree hold the same value or the same priority
DistinctEntries(root) ==
  /\ Cardinality({n.value : n \in TreeNodes(root)}) = TreeSize(root)
  /\ Cardinality({n.priority : n \in TreeNodes(root)}) = TreeSize(root)

\* The tree on the pairs S that is a binary search tree on the values and
\* a max-heap on the priorities: the pair of highest priority at the root
RECURSIVE Canonical(_)
Canonical(S) ==
  IF S = {} THEN null
  ELSE LET top == CHOOSE e \in S : \A f \in S : f[2] <= e[2]
       IN  [value |-> top[1], priority |-> top[2],
            left  |-> Canonical({e \in S : e[1] < top[1]}),
            right |-> Canonical({e \in S : e[1] > top[1]})]

(***************************************************************************)
(* C30: Treap and CartesianTree - for a fixed assignment of pairwise       *)
(* distinct priorities to pairwise distinct keys, the tree produced by     *)
(* inserting the keys is the same for every insertion order: the unique    *)
(* tree that is a binary search tree on the keys and a max-heap on the     *)
(* priorities.  (Stated as: a reachable tree with distinct values and      *)
(* distinct priorities is that tree for the pairs it holds, and inserting  *)
(* one more pair with a new value and a new priority gives that tree for   *)
(* the pairs held before and the new pair.)                                *)
(***************************************************************************)
C30_CanonicalTree ==
  /\ DistinctEntries(treap) =>
       /\ treap = Canonical(Entries(treap))
       /\ \A value \in TreapVals, priority \in TreapPriorities :
            (/\ value \notin {e[1] : e \in Entries(treap)}
             /\ priority \notin {e[2] : e \in Entries(treap)})
              => Treap_insert(treap, value, priority)
                   = Canonical(Entries(treap) \cup {<<value, priority>>})
  /\ DistinctEntries(ct) =>
       /\ ct = Canonical(Entries(ct))
       /\ \A value \in CTVals, priority \in CTPriorities :
            (/\ value \notin {e[1] : e \in Entries(ct)}
             /\ priority \notin {e[2] : e \in Entries(ct)})
              => CT_insert(ct, value, priority)
                   = Canonical(Entries(ct) \cup {<<value, priority>>})

\* The last Treap.insert added a third value, new to the tree and with the
\* highest priority, below a node two levels down and rotated it up to the
\* root: the tree is the one that inserting the highest priority first
\* would have built
C30_Witness ==
  /\ treapLast.op = "insert"
  /\ TreeSize(treapPrev) = 2 /\ TreeSize(treap) = 3
  /\ DistinctEntries(treap)
  /\ treap.value = treapLast.value
  /\ treapLast.value \notin Range(TreeValues(treapPrev))
  /\ treap.left # null /\ treap.right # null
  /\ treap = Treap_insert(Treap_insert(Treap_insert(null, treap.value, treap.priority),
                                       treap.left.value, treap.left.priority),
                          treap.right.value, treap.right.priority)

====
